---- MODULE Spec2Model ----
(***************************************************************************)
(* Inventory reservation and offer lifecycle of the marketplace bot.       *)
(*                                                                         *)
(* The state is the offers table, the reservations table, the Redis lock   *)
(* keys and the clock, plus the position and locals of every handler       *)
(* invocation in flight.  Handlers are asyncio coroutines: the code        *)
(* between two awaits runs without interruption, so each action below is   *)
(* one awaited repository / Redis call together with the synchronous code  *)
(* that follows it up to the next await.  Spec and SpecReservation take a  *)
(* repository call as one step and a lock key as living until its holder   *)
(* deletes it; SpecLease lets the key run out of its TTL and takes         *)
(* decrement_quantity statement by statement (SELECT, then flush).         *)
(***************************************************************************)
EXTENDS Integers, Sequences, FiniteSets, TLC

\* ---------------------------------------------------------------- bounds
MaxQty == 2            \* largest quantity_total at publish, request and edit
MaxTime == 2           \* the clock runs 0..MaxTime
MaxReservations == 2   \* rows the reservations table may hold
NumCustomers == 2      \* concurrent customer handler invocations
MaxOverlap == 0        \* other customer invocations in flight while the
                       \* business owner's handlers run too (Spec)

\* ------------------------- the scenario of test_purchase_race_condition
RaceTotal == 5         \* units the offer is published with
RaceQuantity == 2      \* units each attempt asks for
RaceAttempts == 3      \* attempts started together

\* ------------------------------------------------------------ identities
ExistingOffers == {"offerA"}
OfferIds == ExistingOffers \cup {"unknown"}
Customers == 1..NumCustomers
ReservationIds == 1..MaxReservations

\* src/models/offer.py  OfferStatus
OfferStatus == {"ACTIVE", "PAUSED", "EXPIRED", "EXPIRED_EARLY", "SOLD_OUT"}
\* src/models/reservation.py  ReservationStatus
ReservationStatus == {"CONFIRMED", "CANCELLED"}

NoOffer == [none |-> TRUE]
\* what a handler invocation reported: success flag, the message it sent
\* (by name) and the exception a repository raised, if any
Res(success, reason, raised) ==
    [success |-> success, reason |-> reason, raised |-> raised]
NoResult == Res(FALSE, "none", "none")

VARIABLES
    offers,        \* offers table: id -> row
    reservations,  \* reservations table: sequence of rows, id = index
    lock,          \* Redis: lock[id] <=> key tmkt:lock:offer:<id> exists
    now,           \* datetime.utcnow()
    cust,          \* customer handler invocations
    biz,           \* the business owner's handler invocation
    sched          \* SchedulerService: the expiration loop

vars == <<offers, reservations, lock, now, cust, biz, sched>>

\* ------------------------------------------------------- pure operators

\* Offer.is_expired
is_expired(offer, t) == t >= offer.pickup_end_time

\* Offer.available_for_reservation
available_for_reservation(offer, t) ==
    /\ offer.state = "ACTIVE"
    /\ offer.quantity_remaining > 0
    /\ ~is_expired(offer, t)

\* the CHECK constraints without quantity_remaining <= quantity_total
CheckConstraints_no_upper_bound(row) ==
    /\ row.quantity_total > 0
    /\ row.quantity_remaining >= 0

\* OfferTable.__table_args__: the CHECK constraints on quantities; a flush
\* that violates them raises and leaves the row as it was.
CheckConstraints(row) ==
    /\ row.quantity_total > 0
    /\ row.quantity_remaining >= 0
    /\ row.quantity_remaining <= row.quantity_total

\* PostgresOfferRepository.create: remaining = total, state ACTIVE
NewOffer(total, pickup_end) ==
    [quantity_total |-> total, quantity_remaining |-> total,
     state |-> "ACTIVE", pickup_end_time |-> pickup_end]

\* PostgresOfferRepository.get_by_id
get_by_id(tbl, id) == IF id \in DOMAIN tbl THEN tbl[id] ELSE NoOffer

\* PostgresOfferRepository.decrement_quantity after its SELECT returned the
\* row `loaded`: the checks, the assignment to the loaded object and the
\* flush, which writes the assigned columns -> [ok, raised, tbl]
decrement_flush(tbl, id, loaded, quantity) ==
    IF loaded = NoOffer
    THEN [ok |-> FALSE, raised |-> FALSE, tbl |-> tbl]
    ELSE IF loaded.quantity_remaining < quantity
    THEN [ok |-> FALSE, raised |-> FALSE, tbl |-> tbl]
    ELSE LET q == loaded.quantity_remaining - quantity
             row == [tbl[id] EXCEPT !.quantity_remaining = q,
                                    !.state = IF q = 0 THEN "SOLD_OUT" ELSE @]
         IN IF CheckConstraints(row)
            THEN [ok |-> TRUE, raised |-> FALSE, tbl |-> [tbl EXCEPT ![id] = row]]
            ELSE [ok |-> FALSE, raised |-> TRUE, tbl |-> tbl]

\* PostgresOfferRepository.decrement_quantity as one transaction that no
\* other write to the row overlaps -> [ok, raised, tbl]
decrement_quantity(tbl, id, quantity) ==
    decrement_flush(tbl, id, get_by_id(tbl, id), quantity)

\* PostgresOfferRepository.increment_quantity -> [ok, raised, tbl]
increment_quantity(tbl, id, quantity, t) ==
    IF id \notin DOMAIN tbl
    THEN [ok |-> FALSE, raised |-> FALSE, tbl |-> tbl]
    ELSE LET q == tbl[id].quantity_remaining + quantity
             reactivate == /\ tbl[id].state = "SOLD_OUT"
                           /\ q > 0
                           /\ tbl[id].pickup_end_time > t
             row == [tbl[id] EXCEPT !.quantity_remaining = q,
                                    !.state = IF reactivate THEN "ACTIVE" ELSE @]
         IN IF CheckConstraints(row)
            THEN [ok |-> TRUE, raised |-> FALSE, tbl |-> [tbl EXCEPT ![id] = row]]
            ELSE [ok |-> FALSE, raised |-> TRUE, tbl |-> tbl]

\* one key tmkt:lock:offer for all offers: taken while any key is set
acquire_offer_lock_global_key(lk, id) ==
    IF \E k \in DOMAIN lk : lk[k]
    THEN [acquired |-> FALSE, lock |-> lk]
    ELSE [acquired |-> TRUE, lock |-> [lk EXCEPT ![id] = TRUE]]

\* a SET EX without NX: the key is written whether or not it exists
acquire_offer_lock_without_nx(lk, id) ==
    [acquired |-> TRUE, lock |-> [lk EXCEPT ![id] = TRUE]]

\* RedisLockHelper.acquire_offer_lock, the SET NX EX: -> [acquired, lock]
acquire_offer_lock(lk, id) ==
    IF lk[id]
    THEN [acquired |-> FALSE, lock |-> lk]
    ELSE [acquired |-> TRUE, lock |-> [lk EXCEPT ![id] = TRUE]]

\* a finally block that deletes the key whether or not it was acquired
release_offer_lock_unconditional(lk, id, acquired) == [lk EXCEPT ![id] = FALSE]

\* a context manager whose exit leaves the key to its TTL
release_offer_lock_left_to_ttl(lk, id, acquired) == lk

\* RedisLockHelper.acquire_offer_lock, the finally block: DEL when acquired
release_offer_lock(lk, id, acquired) ==
    IF acquired THEN [lk EXCEPT ![id] = FALSE] ELSE lk

\* PostgresReservationRepository.create: the row is CONFIRMED and carries
\* the pickup window handed in by the caller
NewReservation(offer_id, quantity, pickup_end) ==
    [offer_id |-> offer_id, quantity |-> quantity,
     status |-> "CONFIRMED", pickup_end_time |-> pickup_end,
     cancellation_reason |-> "none", cancelled_at |-> -1]

\* ------------------------------------------------------------ initial state
\* snap: the columns of the offer loaded at reservation_flow.py line 47 that
\* are read after the load (line 56-59, 69-80)
NoSnapshot == [pickup_end_time |-> -1, quantity_remaining |-> -1]
Snapshot(offer) ==
    [pickup_end_time |-> offer.pickup_end_time,
     quantity_remaining |-> offer.quantity_remaining]

IdleCustomer ==
    [pc |-> "idle", op |-> "none", offer_id |-> "unknown", quantity |-> 0,
     rid |-> 0, acquired |-> FALSE, snap |-> NoSnapshot, loaded |-> NoOffer,
     result |-> NoResult]

IdleBusiness ==
    [pc |-> "idle", op |-> "none", offer_id |-> "unknown", quantity |-> 0,
     snap |-> NoOffer, result |-> NoResult]

\* SchedulerService between two passes (line 30, asyncio.sleep)
SleepingScheduler == [pc |-> "sleep", expired |-> {}]

Init ==
    /\ \E total \in 1..MaxQty, pickup_end \in 1..MaxTime :
          offers = [o \in ExistingOffers |-> NewOffer(total, pickup_end)]
    /\ reservations = <<>>
    /\ lock = [o \in OfferIds |-> FALSE]
    /\ now = 0
    /\ cust = [c \in Customers |-> IdleCustomer]
    /\ biz = IdleBusiness
    /\ sched = SleepingScheduler

\* ---------------------------------------------------------------- clock
Tick ==
    /\ now < MaxTime
    /\ now' = now + 1
    /\ UNCHANGED <<offers, reservations, lock, cust, biz, sched>>

\* ------------------------------- ReservationFlowService.create_reservation

\* the message create_reservation returns with each outcome, as its lower-
\* case words (the number in "Only N units available" is written n)
Message(reason) ==
    CASE reason = "locked" ->
            <<"offer", "is", "currently", "locked", "please", "try", "again">>
      [] reason = "not_found" -> <<"offer", "not", "found">>
      [] reason = "unavailable" -> <<"offer", "is", "no", "longer", "available">>
      [] reason = "only_n_units" -> <<"only", "n", "units", "available">>
      [] reason = "decrement_failed" ->
            <<"failed", "to", "reserve", "units", "please", "try", "again">>
      [] reason = "confirmed" -> <<"reservation", "confirmed">>
      [] reason = "create_failed" ->
            <<"failed", "to", "create", "reservation", "please", "try", "again">>
      [] OTHER -> <<>>


\* a confirm_reserve callback arrives and handle_confirm_reserve calls the
\* service; line 41-44: enter the lock context, not acquired returns at once
\* through the finally block of the context manager
CrAcquire(c, o, q) ==
    /\ cust[c].pc = "idle"
    /\ LET r == acquire_offer_lock(lock, o)
           call == [IdleCustomer EXCEPT !.op = "create_reservation",
                                        !.offer_id = o, !.quantity = q]
       IN /\ lock' = IF r.acquired THEN r.lock
                    ELSE release_offer_lock(r.lock, o, r.acquired)
          /\ cust' = [cust EXCEPT ![c] =
                IF r.acquired
                THEN [call EXCEPT !.pc = "cr_get", !.acquired = TRUE]
                ELSE [call EXCEPT !.pc = "reply",
                                  !.result = Res(FALSE, "locked", "none")]]
    /\ UNCHANGED <<offers, reservations, now, biz, sched>>

\* line 46-61: load the offer, then the synchronous validation
CrGetOffer(c) ==
    /\ cust[c].pc = "cr_get"
    /\ LET offer == get_by_id(offers, cust[c].offer_id)
       IN cust' = [cust EXCEPT ![c] =
            IF offer = NoOffer
            THEN [cust[c] EXCEPT !.pc = "cr_release",
                     !.result = Res(FALSE, "not_found", "none")]
            ELSE IF ~available_for_reservation(offer, now)
            THEN [cust[c] EXCEPT !.pc = "cr_release",
                     !.result = Res(FALSE, "unavailable", "none")]
            ELSE IF cust[c].quantity > offer.quantity_remaining
            THEN [cust[c] EXCEPT !.pc = "cr_release",
                     !.result = Res(FALSE, "only_n_units", "none")]
            ELSE [cust[c] EXCEPT !.pc = "cr_decrement", !.snap = Snapshot(offer)]]
    /\ UNCHANGED <<offers, reservations, lock, now, biz, sched>>

\* line 47: the store raises; the exception leaves the lock context
CrGetOfferRaises(c) ==
    /\ cust[c].pc = "cr_get"
    /\ cust' = [cust EXCEPT ![c] = [cust[c] EXCEPT !.pc = "cr_release",
                   !.result = Res(FALSE, "exception", "store_error")]]
    /\ UNCHANGED <<offers, reservations, lock, now, biz, sched>>

\* a call that goes on to persist the reservation after a failed decrement
CrDecrement_without_abort(c) ==
    /\ cust[c].pc = "cr_decrement"
    /\ LET r == decrement_quantity(offers, cust[c].offer_id, cust[c].quantity)
       IN /\ offers' = r.tbl
          /\ cust' = [cust EXCEPT ![c] = [cust[c] EXCEPT !.pc = "cr_create"]]
    /\ UNCHANGED <<reservations, lock, now, biz, sched>>

\* line 63-67: decrement inventory
CrDecrement(c) ==
    /\ cust[c].pc = "cr_decrement"
    /\ LET r == decrement_quantity(offers, cust[c].offer_id, cust[c].quantity)
       IN /\ offers' = r.tbl
          /\ cust' = [cust EXCEPT ![c] =
                IF r.raised
                THEN [cust[c] EXCEPT !.pc = "cr_release",
                         !.result = Res(FALSE, "exception", "integrity_error")]
                ELSE IF ~r.ok
                THEN [cust[c] EXCEPT !.pc = "cr_release",
                         !.result = Res(FALSE, "decrement_failed", "none")]
                ELSE [cust[c] EXCEPT !.pc = "cr_create"]]
    /\ UNCHANGED <<reservations, lock, now, biz, sched>>

\* line 63, inside decrement_quantity: the SELECT and the checks on the row
\* it returned (postgres_offer_repo.py line 148-162)
CrDecrementSelect(c) ==
    /\ cust[c].pc = "cr_decrement"
    /\ LET loaded == get_by_id(offers, cust[c].offer_id)
       IN cust' = [cust EXCEPT ![c] =
            IF loaded = NoOffer \/ loaded.quantity_remaining < cust[c].quantity
            THEN [cust[c] EXCEPT !.pc = "cr_release",
                     !.result = Res(FALSE, "decrement_failed", "none")]
            ELSE [cust[c] EXCEPT !.pc = "cr_decrement_flush", !.loaded = loaded]]
    /\ UNCHANGED <<offers, reservations, lock, now, biz, sched>>

\* line 63-67, inside decrement_quantity: the assignment to the loaded row
\* and its flush (postgres_offer_repo.py line 164-180)
CrDecrementFlush(c) ==
    /\ cust[c].pc = "cr_decrement_flush"
    /\ LET r == decrement_flush(offers, cust[c].offer_id, cust[c].loaded,
                                cust[c].quantity)
       IN /\ offers' = r.tbl
          /\ cust' = [cust EXCEPT ![c] =
                IF r.raised
                THEN [cust[c] EXCEPT !.pc = "cr_release", !.loaded = NoOffer,
                         !.result = Res(FALSE, "exception", "integrity_error")]
                ELSE [cust[c] EXCEPT !.pc = "cr_create", !.loaded = NoOffer]]
    /\ UNCHANGED <<reservations, lock, now, biz, sched>>

\* line 69-92: build the input from the offer read at line 47 and persist it
CrCreate(c) ==
    /\ cust[c].pc = "cr_create"
    /\ reservations' = Append(reservations,
           NewReservation(cust[c].offer_id, cust[c].quantity,
                          cust[c].snap.pickup_end_time))
    /\ cust' = [cust EXCEPT ![c] = [cust[c] EXCEPT !.pc = "cr_release",
                   !.result = Res(TRUE, "confirmed", "none")]]
    /\ UNCHANGED <<offers, lock, now, biz, sched>>

\* line 93-98: reservation_repo.create raises
CrCreateRaises(c) ==
    /\ cust[c].pc = "cr_create"
    /\ cust' = [cust EXCEPT ![c] = [cust[c] EXCEPT !.pc = "cr_rollback"]]
    /\ UNCHANGED <<offers, reservations, lock, now, biz, sched>>

\* line 99-101: rollback of the decrement; the returned flag is not read
CrRollback(c) ==
    /\ cust[c].pc = "cr_rollback"
    /\ LET r == increment_quantity(offers, cust[c].offer_id, cust[c].quantity, now)
       IN /\ offers' = r.tbl
          /\ cust' = [cust EXCEPT ![c] = [cust[c] EXCEPT !.pc = "cr_release",
                !.result = IF r.raised THEN Res(FALSE, "exception", "integrity_error")
                           ELSE Res(FALSE, "create_failed", "none")]]
    /\ UNCHANGED <<reservations, lock, now, biz, sched>>

\* leaving `async with`: the finally block of acquire_offer_lock
CrRelease(c) ==
    /\ cust[c].pc = "cr_release"
    /\ lock' = release_offer_lock(lock, cust[c].offer_id, cust[c].acquired)
    /\ cust' = [cust EXCEPT ![c] = [cust[c] EXCEPT !.pc = "reply",
                   !.acquired = FALSE, !.snap = NoSnapshot]]
    /\ UNCHANGED <<offers, reservations, now, biz, sched>>

\* the handler sends its message (await query.edit_message_text) and ends
Reply(c) ==
    /\ cust[c].pc = "reply"
    /\ cust' = [cust EXCEPT ![c] = IdleCustomer]
    /\ UNCHANGED <<offers, reservations, lock, now, biz, sched>>

\* the model keeps the reservations table within MaxReservations rows
InFlightCreates ==
    Cardinality({c \in DOMAIN cust :
                    cust[c].pc \in {"cr_get", "cr_decrement",
                                    "cr_decrement_flush", "cr_create"}})
TableHasRoom == Len(reservations) + InFlightCreates < MaxReservations

CreateReservation(c) ==
    \/ /\ TableHasRoom
       /\ \E o \in OfferIds, q \in 1..MaxQty : CrAcquire(c, o, q)
    \/ CrGetOffer(c)
    \/ CrGetOfferRaises(c)
    \/ CrDecrement(c)
    \/ CrCreate(c)
    \/ CrCreateRaises(c)
    \/ CrRollback(c)
    \/ CrRelease(c)

\* a key written without ex=: it stays until somebody deletes it
LockPersists(o) ==
    /\ lock[o]
    /\ UNCHANGED vars

\* redis_locks.py line 41-43, ex=ttl_seconds: Redis drops the key when the
\* TTL has run out, whatever its holder is doing
LockExpires(o) ==
    /\ lock[o]
    /\ lock' = [lock EXCEPT ![o] = FALSE]
    /\ UNCHANGED <<offers, reservations, now, cust, biz, sched>>

\* create_reservation with decrement_quantity taken statement by statement
CreateReservationLease(c) ==
    \/ /\ TableHasRoom
       /\ \E o \in OfferIds, q \in 1..MaxQty : CrAcquire(c, o, q)
    \/ CrGetOffer(c)
    \/ CrGetOfferRaises(c)
    \/ CrDecrementSelect(c)
    \/ CrDecrementFlush(c)
    \/ CrCreate(c)
    \/ CrCreateRaises(c)
    \/ CrRollback(c)
    \/ CrRelease(c)

\* the process of a call dies inside the lock context (line 44, between the
\* yield and the finally block): the DEL of line 47 is never sent
Crash(c) ==
    /\ cust[c].op = "create_reservation"
    /\ cust[c].acquired
    /\ cust[c].pc \in {"cr_get", "cr_decrement", "cr_decrement_flush",
                       "cr_create", "cr_rollback", "cr_release"}
    /\ cust' = [cust EXCEPT ![c].pc = "crashed"]
    /\ UNCHANGED <<offers, reservations, lock, now, biz, sched>>

\* a cancel that does not look at the status of the row
cancel_any_status(tbl, rid, reason, t) ==
    IF rid \notin 1..Len(tbl)
    THEN [ok |-> FALSE, raised |-> "not_found", tbl |-> tbl]
    ELSE [ok |-> TRUE, raised |-> "none",
          tbl |-> [tbl EXCEPT ![rid] = [@ EXCEPT !.status = "CANCELLED",
                                                 !.cancellation_reason = reason,
                                                 !.cancelled_at = t]]]

\* ------------------------------------- PostgresReservationRepository.cancel
\* -> [ok, raised, tbl]; raises ValueError for a missing row and for a row
\* that is not CONFIRMED
cancel(tbl, rid, reason, t) ==
    IF rid \notin 1..Len(tbl)
    THEN [ok |-> FALSE, raised |-> "not_found", tbl |-> tbl]
    ELSE IF tbl[rid].status # "CONFIRMED"
    THEN [ok |-> FALSE, raised |-> "invalid_status", tbl |-> tbl]
    ELSE [ok |-> TRUE, raised |-> "none",
          tbl |-> [tbl EXCEPT ![rid] = [@ EXCEPT !.status = "CANCELLED",
                                                 !.cancellation_reason = reason,
                                                 !.cancelled_at = t]]]

\* -------------------------- handlers/purchasing/cancel_reservation_handler

\* handle_cancel_reservation: the confirmation prompt; reads, writes nothing
HandleCancelReservation(c, rid) ==
    /\ cust[c].pc = "idle"
    /\ cust' = [cust EXCEPT ![c] = [IdleCustomer EXCEPT
          !.op = "cancel_reservation", !.rid = rid, !.pc = "reply",
          !.result =
             IF rid \notin 1..Len(reservations)
             THEN Res(FALSE, "reservation_not_found", "none")
             ELSE IF reservations[rid].status # "CONFIRMED"
             THEN Res(FALSE, "already_been", "none")
             ELSE IF now >= reservations[rid].pickup_end_time
             THEN Res(FALSE, "window_ended", "none")
             ELSE IF get_by_id(offers, reservations[rid].offer_id) = NoOffer
             THEN Res(FALSE, "offer_not_found", "none")
             ELSE Res(TRUE, "prompt", "none")]]
    /\ UNCHANGED <<offers, reservations, lock, now, biz, sched>>

\* a confirmation that validates the time against the live offer
CcGetReservation_live_offer(c, rid) ==
    /\ cust[c].pc = "idle"
    /\ cust' = [cust EXCEPT ![c] =
          IF rid \notin 1..Len(reservations)
          THEN [IdleCustomer EXCEPT !.op = "confirm_cancel", !.rid = rid,
                   !.pc = "reply",
                   !.result = Res(FALSE, "reservation_not_found", "none")]
          ELSE IF now >= offers[reservations[rid].offer_id].pickup_end_time
          THEN [IdleCustomer EXCEPT !.op = "confirm_cancel", !.rid = rid,
                   !.pc = "reply",
                   !.result = Res(FALSE, "window_ended", "none")]
          ELSE [IdleCustomer EXCEPT !.op = "confirm_cancel", !.rid = rid,
                   !.pc = "cc_cancel"]]
    /\ UNCHANGED <<offers, reservations, lock, now, biz, sched>>

\* handle_confirm_cancel_reservation, line 93-106: load and validate the time
CcGetReservation(c, rid) ==
    /\ cust[c].pc = "idle"
    /\ cust' = [cust EXCEPT ![c] =
          IF rid \notin 1..Len(reservations)
          THEN [IdleCustomer EXCEPT !.op = "confirm_cancel", !.rid = rid,
                   !.pc = "reply",
                   !.result = Res(FALSE, "reservation_not_found", "none")]
          ELSE IF now >= reservations[rid].pickup_end_time
          THEN [IdleCustomer EXCEPT !.op = "confirm_cancel", !.rid = rid,
                   !.pc = "reply",
                   !.result = Res(FALSE, "window_ended", "none")]
          ELSE [IdleCustomer EXCEPT !.op = "confirm_cancel", !.rid = rid,
                   !.pc = "cc_cancel"]]
    /\ UNCHANGED <<offers, reservations, lock, now, biz, sched>>

\* line 108-141: reservation_repo.cancel; any exception is reported as a
\* failed cancellation.  Nothing else is called.
CcCancel(c) ==
    /\ cust[c].pc = "cc_cancel"
    /\ LET r == cancel(reservations, cust[c].rid, "customer_requested", now)
       IN /\ reservations' = r.tbl
          /\ cust' = [cust EXCEPT ![c] = [cust[c] EXCEPT !.pc = "reply",
                !.result = IF r.ok THEN Res(TRUE, "cancelled", "none")
                           ELSE Res(FALSE, "cancel_failed", r.raised)]]
    /\ UNCHANGED <<offers, lock, now, biz, sched>>

CancelReservation(c) ==
    \/ \E rid \in ReservationIds : HandleCancelReservation(c, rid)
    \/ \E rid \in ReservationIds : CcGetReservation(c, rid)
    \/ CcCancel(c)

\* --------------------------------------------- offers table, whole-row writes

\* PostgresOfferRepository.update_state -> [ok, raised, tbl]
\* a variant of update_state that also restocks the offer
update_state_restocking(tbl, id, state) ==
    IF id \notin DOMAIN tbl
    THEN [ok |-> FALSE, raised |-> TRUE, tbl |-> tbl]
    ELSE [ok |-> TRUE, raised |-> FALSE,
          tbl |-> [tbl EXCEPT ![id] = [@ EXCEPT !.state = state,
                        !.quantity_remaining = tbl[id].quantity_total]]]

update_state(tbl, id, state) ==
    IF id \notin DOMAIN tbl
    THEN [ok |-> FALSE, raised |-> TRUE, tbl |-> tbl]
    ELSE [ok |-> TRUE, raised |-> FALSE,
          tbl |-> [tbl EXCEPT ![id] = [@ EXCEPT !.state = state]]]

\* PostgresOfferRepository.update: every column is overwritten from the entity
update(tbl, id, entity) ==
    IF id \notin DOMAIN tbl
    THEN [ok |-> FALSE, raised |-> TRUE, tbl |-> tbl]
    ELSE IF ~CheckConstraints(entity)
    THEN [ok |-> FALSE, raised |-> TRUE, tbl |-> tbl]
    ELSE [ok |-> TRUE, raised |-> FALSE, tbl |-> [tbl EXCEPT ![id] = entity]]

\* a quantity edit that sets the total to the new quantity in every case
EditedQuantity_total_follows(offer, new_quantity) ==
    [offer EXCEPT !.quantity_remaining = new_quantity,
                  !.quantity_total = new_quantity]

\* handle_edit_quantity_input line 182-185: the edit applied to the entity
EditedQuantity(offer, new_quantity) ==
    [offer EXCEPT !.quantity_remaining = new_quantity,
                  !.quantity_total = IF new_quantity > offer.quantity_total
                                     THEN new_quantity ELSE @]

BizDone(op, o, success, reason) ==
    [IdleBusiness EXCEPT !.op = op, !.offer_id = o, !.pc = "reply",
                         !.result = Res(success, reason, "none")]

\* ------------------------------ handlers/offer_management/pause_resume_handler
\* a pause handler that does not look at the state of the offer
PauseGet_without_state_check(o) ==
    /\ biz.pc = "idle"
    /\ LET offer == get_by_id(offers, o)
       IN biz' = IF offer = NoOffer THEN BizDone("pause", o, FALSE, "offer_not_found")
                 ELSE [IdleBusiness EXCEPT !.op = "pause", !.offer_id = o,
                                           !.pc = "pause_write"]
    /\ UNCHANGED <<offers, reservations, lock, now, cust, sched>>

\* handle_pause_offer line 25-37
PauseGet(o) ==
    /\ biz.pc = "idle"
    /\ LET offer == get_by_id(offers, o)
       IN biz' = IF offer = NoOffer THEN BizDone("pause", o, FALSE, "offer_not_found")
                 ELSE IF offer.state # "ACTIVE"
                 THEN BizDone("pause", o, FALSE, "cannot_pause")
                 ELSE [IdleBusiness EXCEPT !.op = "pause", !.offer_id = o,
                                           !.pc = "pause_write"]
    /\ UNCHANGED <<offers, reservations, lock, now, cust, sched>>

\* handle_pause_offer line 39-53
PauseWrite ==
    /\ biz.pc = "pause_write"
    /\ offers' = update_state(offers, biz.offer_id, "PAUSED").tbl
    /\ biz' = BizDone("pause", biz.offer_id, TRUE, "paused")
    /\ UNCHANGED <<reservations, lock, now, cust, sched>>

\* a resume handler that does not look at the pickup window
ResumeGet_without_expiry_check(o) ==
    /\ biz.pc = "idle"
    /\ LET offer == get_by_id(offers, o)
       IN biz' = IF offer = NoOffer THEN BizDone("resume", o, FALSE, "offer_not_found")
                 ELSE IF offer.state # "PAUSED"
                 THEN BizDone("resume", o, FALSE, "cannot_resume")
                 ELSE [IdleBusiness EXCEPT !.op = "resume", !.offer_id = o,
                                           !.pc = "resume_write"]
    /\ UNCHANGED <<offers, reservations, lock, now, cust, sched>>

\* handle_resume_offer line 67-87
ResumeGet(o) ==
    /\ biz.pc = "idle"
    /\ LET offer == get_by_id(offers, o)
       IN biz' = IF offer = NoOffer THEN BizDone("resume", o, FALSE, "offer_not_found")
                 ELSE IF offer.state # "PAUSED"
                 THEN BizDone("resume", o, FALSE, "cannot_resume")
                 ELSE IF is_expired(offer, now)
                 THEN BizDone("resume", o, FALSE, "cannot_resume_expired")
                 ELSE [IdleBusiness EXCEPT !.op = "resume", !.offer_id = o,
                                           !.pc = "resume_write"]
    /\ UNCHANGED <<offers, reservations, lock, now, cust, sched>>

\* handle_resume_offer line 89-102
ResumeWrite ==
    /\ biz.pc = "resume_write"
    /\ offers' = update_state(offers, biz.offer_id, "ACTIVE").tbl
    /\ biz' = BizDone("resume", biz.offer_id, TRUE, "resumed")
    /\ UNCHANGED <<reservations, lock, now, cust, sched>>

\* ---------------------------------- handlers/offer_management/end_offer_handler
\* handle_end_offer: the confirmation prompt; reads, writes nothing
HandleEndOffer(o) ==
    /\ biz.pc = "idle"
    /\ LET offer == get_by_id(offers, o)
       IN biz' = IF offer = NoOffer THEN BizDone("end_offer", o, FALSE, "offer_not_found")
                 ELSE IF offer.state \notin {"ACTIVE", "PAUSED"}
                 THEN BizDone("end_offer", o, FALSE, "cannot_end")
                 ELSE BizDone("end_offer", o, TRUE, "prompt")
    /\ UNCHANGED <<offers, reservations, lock, now, cust, sched>>

\* handle_confirm_end line 69-74
ConfirmEndGet(o) ==
    /\ biz.pc = "idle"
    /\ LET offer == get_by_id(offers, o)
       IN biz' = IF offer = NoOffer THEN BizDone("confirm_end", o, FALSE, "offer_not_found")
                 ELSE [IdleBusiness EXCEPT !.op = "confirm_end", !.offer_id = o,
                                           !.pc = "end_write"]
    /\ UNCHANGED <<offers, reservations, lock, now, cust, sched>>

\* handle_confirm_end line 76-90
ConfirmEndWrite ==
    /\ biz.pc = "end_write"
    /\ offers' = update_state(offers, biz.offer_id, "EXPIRED_EARLY").tbl
    /\ biz' = BizDone("confirm_end", biz.offer_id, TRUE, "ended")
    /\ UNCHANGED <<reservations, lock, now, cust, sched>>

\* -------------------------------------- handlers/offer_management/edit_handler
\* handle_edit_offer: entry of the edit conversation, keeps the offer id
EditOffer(o) ==
    /\ biz.pc = "idle"
    /\ LET offer == get_by_id(offers, o)
       IN biz' = IF offer = NoOffer THEN BizDone("edit", o, FALSE, "offer_not_found")
                 ELSE IF offer.state \notin {"ACTIVE", "PAUSED"}
                 THEN BizDone("edit", o, FALSE, "cannot_edit")
                 ELSE [IdleBusiness EXCEPT !.op = "edit", !.offer_id = o,
                                           !.pc = "edit_input"]
    /\ UNCHANGED <<offers, reservations, lock, now, cust, sched>>

\* handle_edit_quantity_input line 171-185: parse, reject negatives, load the
\* offer and apply the edit to the loaded entity
EditQuantityInput(new_quantity) ==
    /\ biz.pc = "edit_input"
    /\ biz' = IF new_quantity < 0
              THEN [biz EXCEPT !.result = Res(FALSE, "negative_quantity", "none")]
              ELSE [biz EXCEPT !.pc = "edit_update", !.quantity = new_quantity,
                       !.snap = EditedQuantity(get_by_id(offers, biz.offer_id),
                                               new_quantity)]
    /\ UNCHANGED <<offers, reservations, lock, now, cust, sched>>

\* handle_edit_quantity_input line 187-200: write the entity back
EditQuantityUpdate ==
    /\ biz.pc = "edit_update"
    /\ LET r == update(offers, biz.offer_id, biz.snap)
       IN /\ offers' = r.tbl
          /\ biz' = IF r.ok THEN BizDone("edit", biz.offer_id, TRUE, "quantity_updated")
                    ELSE [IdleBusiness EXCEPT !.op = "edit", !.pc = "reply",
                             !.offer_id = biz.offer_id,
                             !.result = Res(FALSE, "exception", "integrity_error")]
    /\ UNCHANGED <<reservations, lock, now, cust, sched>>

\* the handler sends its message and ends
BizReply ==
    /\ biz.pc = "reply"
    /\ biz' = IdleBusiness
    /\ UNCHANGED <<offers, reservations, lock, now, cust, sched>>

Business ==
    \/ \E o \in ExistingOffers : PauseGet(o)
    \/ PauseWrite
    \/ \E o \in ExistingOffers : ResumeGet(o)
    \/ ResumeWrite
    \/ \E o \in ExistingOffers : HandleEndOffer(o)
    \/ \E o \in ExistingOffers : ConfirmEndGet(o)
    \/ ConfirmEndWrite
    \/ \E o \in ExistingOffers : EditOffer(o)
    \/ \E n \in -1..MaxQty : EditQuantityInput(n)
    \/ EditQuantityUpdate
    \/ BizReply

\* ------------------------------------------------ SchedulerService (sweep)

\* PostgresOfferRepository.get_expired_offers: the ids of the rows selected
get_expired_offers(tbl, t) ==
    {o \in DOMAIN tbl : tbl[o].state = "ACTIVE" /\ tbl[o].pickup_end_time <= t}

\* offer_repo.update_status: PostgresOfferRepository defines update_state and
\* no update_status, the attribute lookup raises AttributeError and nothing
\* is written -> [ok, raised, tbl]
update_status(tbl, id, state) ==
    [ok |-> FALSE, raised |-> TRUE, tbl |-> tbl]

\* expire_offers line 43: the SELECT of a pass; a pass that selects nothing
\* goes back to sleep unchanged (line 44, 48)
SweepQuery ==
    /\ sched.pc = "sleep"
    /\ get_expired_offers(offers, now) # {}
    /\ sched' = [pc |-> "update", expired |-> get_expired_offers(offers, now)]
    /\ UNCHANGED <<offers, reservations, lock, now, cust, biz>>

\* expire_offers line 44-45: the loop reaches its write for the first offer
\* selected; an exception ends the pass (line 50) and the loop of start
\* sleeps until the next one, else the pass goes on with the other offers
SweepUpdate ==
    /\ sched.pc = "update"
    /\ \E o \in sched.expired :
          LET r == update_status(offers, o, "EXPIRED")
          IN /\ offers' = r.tbl
             /\ sched' = IF r.raised \/ sched.expired = {o}
                         THEN SleepingScheduler
                         ELSE [sched EXCEPT !.expired = @ \ {o}]
    /\ UNCHANGED <<reservations, lock, now, cust, biz>>

Sweep == SweepQuery \/ SweepUpdate

\* ------------------------------------------------ SoldOutTransitionService

\* sum(item.quantity for item in offer.items)
RECURSIVE total_remaining(_)
total_remaining(items) ==
    IF items = <<>> THEN 0 ELSE Head(items).quantity + total_remaining(Tail(items))

\* check_and_transition_to_sold_out -> [result, raised, tbl].  The entity
\* get_by_id returns is an Offer, whose fields are those of the offers row:
\* reading an attribute it does not have raises AttributeError, which the
\* except of line 85 turns into False
check_and_transition_to_sold_out(tbl, id) ==
    LET offer == get_by_id(tbl, id)
    IN IF offer = NoOffer
       THEN [result |-> FALSE, raised |-> FALSE, tbl |-> tbl]
       ELSE IF "status" \notin DOMAIN offer
       THEN [result |-> FALSE, raised |-> TRUE, tbl |-> tbl]
       ELSE IF offer.status \notin {"ACTIVE", "PAUSED"}
       THEN [result |-> FALSE, raised |-> FALSE, tbl |-> tbl]
       ELSE IF "items" \notin DOMAIN offer
       THEN [result |-> FALSE, raised |-> TRUE, tbl |-> tbl]
       ELSE IF total_remaining(offer.items) > 0
       THEN [result |-> FALSE, raised |-> FALSE, tbl |-> tbl]
       ELSE LET r == update_status(tbl, id, "SOLD_OUT")
            IN [result |-> ~r.raised, raised |-> r.raised, tbl |-> r.tbl]

\* force_sold_out -> [result, raised, tbl]; OfferStatus has no member DRAFT,
\* so line 125 raises for every offer that gets there
force_sold_out(tbl, id) ==
    LET offer == get_by_id(tbl, id)
    IN IF offer = NoOffer
       THEN [result |-> FALSE, raised |-> FALSE, tbl |-> tbl]
       ELSE IF "status" \notin DOMAIN offer
       THEN [result |-> FALSE, raised |-> TRUE, tbl |-> tbl]
       ELSE IF offer.status = "SOLD_OUT"
       THEN [result |-> TRUE, raised |-> FALSE, tbl |-> tbl]
       ELSE IF "DRAFT" \notin OfferStatus
       THEN [result |-> FALSE, raised |-> TRUE, tbl |-> tbl]
       ELSE IF offer.status \in {"EXPIRED", "DRAFT"}
       THEN [result |-> FALSE, raised |-> FALSE, tbl |-> tbl]
       ELSE LET r == update_status(tbl, id, "SOLD_OUT")
            IN [result |-> ~r.raised, raised |-> r.raised, tbl |-> r.tbl]

\* a call of check_and_transition_to_sold_out on behalf of the business
CheckAndTransition(o) ==
    /\ biz.pc = "idle"
    /\ LET r == check_and_transition_to_sold_out(offers, o)
       IN /\ offers' = r.tbl
          /\ biz' = [BizDone("check_and_transition", o, r.result, "returned")
                        EXCEPT !.result.raised =
                            IF r.raised THEN "attribute_error" ELSE "none"]
    /\ UNCHANGED <<reservations, lock, now, cust, sched>>

\* a call of force_sold_out on behalf of the business
ForceSoldOut(o) ==
    /\ biz.pc = "idle"
    /\ LET r == force_sold_out(offers, o)
       IN /\ offers' = r.tbl
          /\ biz' = [BizDone("force_sold_out", o, r.result, "returned")
                        EXCEPT !.result.raised =
                            IF r.raised THEN "attribute_error" ELSE "none"]
    /\ UNCHANGED <<reservations, lock, now, cust, sched>>

\* ------------------------------------------------------------ specification
CustomerStep(c) ==
    \/ CreateReservation(c)
    \/ CancelReservation(c)
    \/ Reply(c)

\* customer invocations other than c that are between their first await and
\* their reply
OthersInFlight(c) ==
    Cardinality({d \in DOMAIN cust : d # c /\ cust[d].pc # "idle"})

\* Every handler and the scheduler.  Customer invocations overlap the
\* business owner's invocation and the sweep freely and each other up to
\* MaxOverlap.
Next ==
    \/ Tick
    \/ \E c \in Customers : OthersInFlight(c) <= MaxOverlap /\ CustomerStep(c)
    \/ Business
    \/ Sweep

Spec == Init /\ [][Next]_vars

\* The reservation engine alone: every customer invocation overlaps every
\* other one; no business handler runs.
NextReservation ==
    \/ Tick
    \/ \E c \in Customers : CustomerStep(c)

SpecReservation == Init /\ [][NextReservation]_vars

\* the reservation service alone, with a lock key that can outlive its TTL
\* and decrement_quantity taken statement by statement
NextLease ==
    \/ \E c \in Customers : CreateReservationLease(c) \/ Reply(c)
    \/ \E o \in ExistingOffers : LockExpires(o)
SpecLease == Init /\ [][NextLease]_vars

\* the same with holders that can die inside the lock context; Redis is up
\* and expires every key when its TTL has run out
NextTtl ==
    \/ \E c \in Customers : CreateReservationLease(c) \/ Reply(c) \/ Crash(c)
    \/ \E o \in OfferIds : LockExpires(o)
SpecTtl ==
    Init /\ [][NextTtl]_vars /\ \A o \in OfferIds : WF_vars(LockExpires(o))

\* the scheduler and the business owner: the loop of SchedulerService.start
\* keeps running, so a pass that has offers to select is made and a pass
\* that selected some reaches its write
NextSweep ==
    \/ Tick
    \/ Business
    \/ Sweep
SpecSweep ==
    Init /\ [][NextSweep]_vars /\ WF_vars(SweepQuery) /\ WF_vars(SweepUpdate)

\* the business owner, the scheduler and a caller of the sold-out service
\* that calls it again and again, as after every purchase and quantity
\* update; handlers that have started run to their end and the loop of the
\* scheduler keeps running
NextSoldOut ==
    \/ Tick
    \/ Business
    \/ Sweep
    \/ \E o \in OfferIds : CheckAndTransition(o)
    \/ \E o \in OfferIds : ForceSoldOut(o)
SpecSoldOut ==
    /\ Init /\ [][NextSoldOut]_vars
    /\ WF_vars(Business)
    /\ WF_vars(Sweep)
    /\ \A o \in ExistingOffers : SF_vars(CheckAndTransition(o))

\* two offers of the same business and the reservation service on both: the
\* lock keys tmkt:lock:offer:<id> of the two are different keys
ScopeOffers == {"offerA", "offerB"}
InitScope ==
    /\ \E total \in 1..MaxQty, pickup_end \in 1..MaxTime :
          offers = [o \in ScopeOffers |-> NewOffer(total, pickup_end)]
    /\ reservations = <<>>
    /\ lock = [o \in ScopeOffers |-> FALSE]
    /\ now = 0
    /\ cust = [c \in Customers |-> IdleCustomer]
    /\ biz = IdleBusiness
    /\ sched = SleepingScheduler
CreateReservationScope(c) ==
    \/ /\ TableHasRoom
       /\ \E o \in ScopeOffers, q \in 1..MaxQty : CrAcquire(c, o, q)
    \/ CrGetOffer(c)
    \/ CrGetOfferRaises(c)
    \/ CrDecrement(c)
    \/ CrCreate(c)
    \/ CrCreateRaises(c)
    \/ CrRollback(c)
    \/ CrRelease(c)
NextScope == \E c \in Customers : CreateReservationScope(c) \/ Reply(c)
SpecScope == InitScope /\ [][NextScope]_vars

\* the race scenario: RaceAttempts calls of create_reservation, each for
\* RaceQuantity units, started together on one offer of RaceTotal units that
\* stays open; the store does not fail and every call keeps its result
RaceCustomers == 1..RaceAttempts
InitRace ==
    /\ offers = [o \in ExistingOffers |-> NewOffer(RaceTotal, MaxTime)]
    /\ reservations = <<>>
    /\ lock = [o \in OfferIds |-> FALSE]
    /\ now = 0
    /\ cust = [c \in RaceCustomers |-> IdleCustomer]
    /\ biz = IdleBusiness
    /\ sched = SleepingScheduler
RaceAttempt(c) ==
    \/ \E o \in ExistingOffers : CrAcquire(c, o, RaceQuantity)
    \/ CrGetOffer(c)
    \/ CrDecrementSelect(c)
    \/ CrDecrementFlush(c)
    \/ CrCreate(c)
    \/ CrRelease(c)
NextRace == \E c \in RaceCustomers : RaceAttempt(c)
SpecRace == InitRace /\ [][NextRace]_vars

\* ------------------------------------------- prices and the pickup window
\* The offers and reservations tables with their price and pickup-window
\* columns (price in cents), the reservation service that copies them and the
\* two edit conversations that change them on the offer.
MaxPrice == 2          \* largest price_per_unit, in cents

\* PostgresOfferRepository.create with the price and the pickup window
PricedOffer(total, price, pickup_start, pickup_end) ==
    [quantity_total |-> total, quantity_remaining |-> total,
     state |-> "ACTIVE", price_per_unit |-> price,
     pickup_start_time |-> pickup_start, pickup_end_time |-> pickup_end]

\* reservation_flow.py line 69-80: the input built from the loaded offer
ReservationInput(offer_id, quantity, offer) ==
    [offer_id |-> offer_id, quantity |-> quantity,
     unit_price |-> offer.price_per_unit,
     total_price |-> quantity * offer.price_per_unit,
     pickup_start_time |-> offer.pickup_start_time,
     pickup_end_time |-> offer.pickup_end_time]

\* PostgresReservationRepository.create: the row copies the input's columns
create(entity) ==
    [offer_id |-> entity.offer_id, quantity |-> entity.quantity,
     status |-> "CONFIRMED",
     unit_price |-> entity.unit_price, total_price |-> entity.total_price,
     pickup_start_time |-> entity.pickup_start_time,
     pickup_end_time |-> entity.pickup_end_time,
     cancellation_reason |-> "none", cancelled_at |-> -1]

InitPriced ==
    /\ \E total \in 1..MaxQty, price \in 1..MaxPrice, pickup_end \in 1..MaxTime :
          offers = [o \in ExistingOffers |->
                       PricedOffer(total, price, 0, pickup_end)]
    /\ reservations = <<>>
    /\ lock = [o \in OfferIds |-> FALSE]
    /\ now = 0
    /\ cust = [c \in Customers |-> IdleCustomer]
    /\ biz = IdleBusiness
    /\ sched = SleepingScheduler

\* create_reservation line 46-61 with the loaded offer kept whole: line 69-80
\* read its price and its pickup window
CrGetOfferPriced(c) ==
    /\ cust[c].pc = "cr_get"
    /\ LET offer == get_by_id(offers, cust[c].offer_id)
       IN cust' = [cust EXCEPT ![c] =
            IF offer = NoOffer
            THEN [cust[c] EXCEPT !.pc = "cr_release",
                     !.result = Res(FALSE, "not_found", "none")]
            ELSE IF ~available_for_reservation(offer, now)
            THEN [cust[c] EXCEPT !.pc = "cr_release",
                     !.result = Res(FALSE, "unavailable", "none")]
            ELSE IF cust[c].quantity > offer.quantity_remaining
            THEN [cust[c] EXCEPT !.pc = "cr_release",
                     !.result = Res(FALSE, "only_n_units", "none")]
            ELSE [cust[c] EXCEPT !.pc = "cr_decrement", !.loaded = offer]]
    /\ UNCHANGED <<offers, reservations, lock, now, biz, sched>>

\* create_reservation line 69-92: total price, input, reservation_repo.create
CrCreatePriced(c) ==
    /\ cust[c].pc = "cr_create"
    /\ reservations' = Append(reservations,
           create(ReservationInput(cust[c].offer_id, cust[c].quantity,
                                   cust[c].loaded)))
    /\ cust' = [cust EXCEPT ![c] = [cust[c] EXCEPT !.pc = "cr_release",
                   !.loaded = NoOffer,
                   !.result = Res(TRUE, "confirmed", "none")]]
    /\ UNCHANGED <<offers, lock, now, biz, sched>>

CreateReservationPriced(c) ==
    \/ /\ TableHasRoom
       /\ \E o \in ExistingOffers, q \in 1..MaxQty : CrAcquire(c, o, q)
    \/ CrGetOfferPriced(c)
    \/ CrDecrement(c)
    \/ CrCreatePriced(c)
    \/ CrRelease(c)

\* handle_edit_price_input line 133-145: parse, reject a price that is not
\* positive, load the offer and set the price on the loaded entity
EditPriceInput(new_price) ==
    /\ biz.pc = "edit_input"
    /\ biz' = IF new_price <= 0
              THEN [biz EXCEPT !.result = Res(FALSE, "price_not_positive", "none")]
              ELSE [biz EXCEPT !.pc = "edit_update", !.op = "edit_price",
                       !.snap = [get_by_id(offers, biz.offer_id)
                                    EXCEPT !.price_per_unit = new_price]]
    /\ UNCHANGED <<offers, reservations, lock, now, cust, sched>>

\* a price edit that also rewrites the reservations of the offer
EditPriceUpdate_cascading ==
    /\ biz.pc = "edit_update"
    /\ biz.op = "edit_price"
    /\ LET r == update(offers, biz.offer_id, biz.snap)
       IN /\ offers' = r.tbl
          /\ reservations' =
                [i \in 1..Len(reservations) |->
                    IF r.ok /\ reservations[i].offer_id = biz.offer_id
                    THEN [reservations[i] EXCEPT
                            !.unit_price = biz.snap.price_per_unit,
                            !.total_price = reservations[i].quantity
                                            * biz.snap.price_per_unit]
                    ELSE reservations[i]]
          /\ biz' = IF r.ok
                    THEN BizDone("edit_price", biz.offer_id, TRUE, "price_updated")
                    ELSE [IdleBusiness EXCEPT !.op = "edit_price", !.pc = "reply",
                             !.offer_id = biz.offer_id,
                             !.result = Res(FALSE, "exception", "integrity_error")]
    /\ UNCHANGED <<lock, now, cust, sched>>

\* handle_edit_price_input line 146-159: offer_repo.update and the answer
EditPriceUpdate ==
    /\ biz.pc = "edit_update"
    /\ biz.op = "edit_price"
    /\ LET r == update(offers, biz.offer_id, biz.snap)
       IN /\ offers' = r.tbl
          /\ biz' = IF r.ok
                    THEN BizDone("edit_price", biz.offer_id, TRUE, "price_updated")
                    ELSE [IdleBusiness EXCEPT !.op = "edit_price", !.pc = "reply",
                             !.offer_id = biz.offer_id,
                             !.result = Res(FALSE, "exception", "integrity_error")]
    /\ UNCHANGED <<reservations, lock, now, cust, sched>>

\* handle_edit_pickup_end_input line 242-276: parse, load the offer, reject an
\* end that is not after the start or not in the future, set the new end on
\* the loaded entity
EditPickupEndInput(new_end_time) ==
    /\ biz.pc = "edit_input"
    /\ LET offer == get_by_id(offers, biz.offer_id)
       IN biz' = IF new_end_time <= offer.pickup_start_time
                 THEN [biz EXCEPT !.result = Res(FALSE, "end_before_start", "none")]
                 ELSE IF new_end_time <= now
                 THEN [biz EXCEPT !.result = Res(FALSE, "end_not_future", "none")]
                 ELSE [biz EXCEPT !.pc = "edit_update", !.op = "edit_pickup_end",
                          !.snap = [offer EXCEPT !.pickup_end_time = new_end_time]]
    /\ UNCHANGED <<offers, reservations, lock, now, cust, sched>>

\* handle_edit_pickup_end_input line 277-291: offer_repo.update and the answer
EditPickupEndUpdate ==
    /\ biz.pc = "edit_update"
    /\ biz.op = "edit_pickup_end"
    /\ LET r == update(offers, biz.offer_id, biz.snap)
       IN /\ offers' = r.tbl
          /\ biz' = IF r.ok
                    THEN BizDone("edit_pickup_end", biz.offer_id, TRUE,
                                 "pickup_end_updated")
                    ELSE [IdleBusiness EXCEPT !.op = "edit_pickup_end",
                             !.pc = "reply", !.offer_id = biz.offer_id,
                             !.result = Res(FALSE, "exception", "integrity_error")]
    /\ UNCHANGED <<reservations, lock, now, cust, sched>>

EditPriceOrPickupEnd ==
    \/ \E o \in ExistingOffers : EditOffer(o)
    \/ \E p \in 0..MaxPrice : EditPriceInput(p)
    \/ EditPriceUpdate
    \/ \E t \in 0..MaxTime : EditPickupEndInput(t)
    \/ EditPickupEndUpdate
    \/ BizReply

\* reservations and the two edits: the owner's conversation overlaps the
\* customer invocations freely, these overlap each other up to MaxOverlap
NextPriced ==
    \/ Tick
    \/ \E c \in Customers :
          /\ OthersInFlight(c) <= MaxOverlap
          /\ CreateReservationPriced(c) \/ Reply(c)
    \/ EditPriceOrPickupEnd
SpecPriced == InitPriced /\ [][NextPriced]_vars

\* the scheduler over two offers that end together, with the business owner
\* acting on the first: a pass selects both when both are ACTIVE and overdue
NextPass ==
    \/ Tick
    \/ Business
    \/ Sweep
SpecPass == InitScope /\ [][NextPass]_vars

\* ------------------------------------------- SchedulerService.start / stop
\* The loop of start with its _running flag: sched.running is _running,
\* sched.logged_error tells that a pass has logged a failure, pc "ended" is
\* start having returned.

\* start line 24: _running = True, the loop is before its first pass
RunningScheduler ==
    [pc |-> "sleep", expired |-> {}, running |-> TRUE, logged_error |-> FALSE]

InitLoop ==
    /\ \E total \in 1..MaxQty, pickup_end \in 1..MaxTime :
          offers = [o \in ExistingOffers |-> NewOffer(total, pickup_end)]
    /\ reservations = <<>>
    /\ lock = [o \in OfferIds |-> FALSE]
    /\ now = 0
    /\ cust = [c \in Customers |-> IdleCustomer]
    /\ biz = IdleBusiness
    /\ sched = RunningScheduler

\* start line 27-29 and expire_offers line 43: the sleep is over, _running
\* is set, the pass makes its SELECT; a pass that selects nothing goes back
\* to sleep unchanged
ExpireOffersQuery ==
    /\ sched.pc = "sleep"
    /\ sched.running
    /\ get_expired_offers(offers, now) # {}
    /\ sched' = [sched EXCEPT !.pc = "update",
                              !.expired = get_expired_offers(offers, now)]
    /\ UNCHANGED <<offers, reservations, lock, now, cust, biz>>

\* expire_offers line 43, 50-51: the SELECT raises (the store is down); the
\* pass logs the failure and returns, start sleeps until the next pass
ExpireOffersQueryRaises ==
    /\ sched.pc = "sleep"
    /\ sched.running
    /\ sched' = [sched EXCEPT !.logged_error = TRUE]
    /\ UNCHANGED <<offers, reservations, lock, now, cust, biz>>

\* a pass whose exception leaves start: the loop ends with _running set
ExpireOffersUpdate_propagating ==
    /\ sched.pc = "update"
    /\ \E o \in sched.expired :
          LET r == update_status(offers, o, "EXPIRED")
          IN /\ offers' = r.tbl
             /\ sched' = IF r.raised
                         THEN [sched EXCEPT !.pc = "ended", !.expired = {},
                                            !.logged_error = TRUE]
                         ELSE IF sched.expired = {o}
                         THEN [sched EXCEPT !.pc = "sleep", !.expired = {}]
                         ELSE [sched EXCEPT !.expired = @ \ {o}]
    /\ UNCHANGED <<reservations, lock, now, cust, biz>>

\* expire_offers line 44-51: the write for one selected offer; an exception
\* is logged at line 51 and ends the pass, start sleeps until the next one
ExpireOffersUpdate ==
    /\ sched.pc = "update"
    /\ \E o \in sched.expired :
          LET r == update_status(offers, o, "EXPIRED")
          IN /\ offers' = r.tbl
             /\ sched' = IF r.raised
                         THEN [sched EXCEPT !.pc = "sleep", !.expired = {},
                                            !.logged_error = TRUE]
                         ELSE IF sched.expired = {o}
                         THEN [sched EXCEPT !.pc = "sleep", !.expired = {}]
                         ELSE [sched EXCEPT !.expired = @ \ {o}]
    /\ UNCHANGED <<reservations, lock, now, cust, biz>>

\* SchedulerService.stop line 35-38
stop ==
    /\ sched.running
    /\ sched' = [sched EXCEPT !.running = FALSE]
    /\ UNCHANGED <<offers, reservations, lock, now, cust, biz>>

\* start line 27: the sleep is over and _running is not set, start returns
StartReturns ==
    /\ sched.pc = "sleep"
    /\ ~sched.running
    /\ sched' = [sched EXCEPT !.pc = "ended"]
    /\ UNCHANGED <<offers, reservations, lock, now, cust, biz>>

\* the loop of start beside the business owner; the event loop resumes the
\* task when its sleep is over and the store answers a pass in the end
NextLoop ==
    \/ Tick
    \/ Business
    \/ ExpireOffersQuery
    \/ ExpireOffersQueryRaises
    \/ ExpireOffersUpdate
    \/ stop
    \/ StartReturns
SpecLoop ==
    /\ InitLoop /\ [][NextLoop]_vars
    /\ WF_vars(ExpireOffersQuery)
    /\ WF_vars(ExpireOffersUpdate)

\* reservations with their snapshot, cancellations and the edit of the
\* offer's pickup end: the owner's conversation overlaps the customer
\* invocations freely, these overlap each other up to MaxOverlap
EditPickupEnd ==
    \/ \E o \in ExistingOffers : EditOffer(o)
    \/ \E t \in 0..MaxTime : EditPickupEndInput(t)
    \/ EditPickupEndUpdate
    \/ BizReply
NextWindow ==
    \/ Tick
    \/ \E c \in Customers :
          /\ OthersInFlight(c) <= MaxOverlap
          /\ CreateReservationPriced(c) \/ CancelReservation(c) \/ Reply(c)
    \/ EditPickupEnd
SpecWindow == InitPriced /\ [][NextWindow]_vars

\* ------------------------------------------------------------- order ids
\* The reservations table with its order_id column and its unique index.
NumOrderIds == 2       \* values _generate_order_id can return
OrderIds == 1..NumOrderIds

\* PostgresReservationRepository.create with the order id it generated: the
\* unique index on order_id refuses the flush of a second row with the same
\* id -> [ok, raised, tbl]
create_with_order_id(tbl, offer_id, quantity, pickup_end, order_id) ==
    IF \E i \in 1..Len(tbl) : tbl[i].order_id = order_id
    THEN [ok |-> FALSE, raised |-> TRUE, tbl |-> tbl]
    ELSE [ok |-> TRUE, raised |-> FALSE,
          tbl |-> Append(tbl, [order_id |-> order_id]
                              @@ NewReservation(offer_id, quantity, pickup_end))]

\* create_reservation line 69-98: reservation_repo.create generates an order
\* id (secrets.token_hex) and inserts the row; the IntegrityError of a
\* collision is caught at line 93 and leads to the rollback of line 99
CrCreateOrder(c) ==
    /\ cust[c].pc = "cr_create"
    /\ \E order_id \in OrderIds :
          LET r == create_with_order_id(reservations, cust[c].offer_id,
                       cust[c].quantity, cust[c].snap.pickup_end_time, order_id)
          IN /\ reservations' = r.tbl
             /\ cust' = [cust EXCEPT ![c] =
                   IF r.raised
                   THEN [cust[c] EXCEPT !.pc = "cr_rollback"]
                   ELSE [cust[c] EXCEPT !.pc = "cr_release",
                            !.result = Res(TRUE, "confirmed", "none")]]
    /\ UNCHANGED <<offers, lock, now, biz, sched>>

CreateReservationOrder(c) ==
    \/ /\ TableHasRoom
       /\ \E o \in ExistingOffers, q \in 1..MaxQty : CrAcquire(c, o, q)
    \/ CrGetOffer(c)
    \/ CrDecrement(c)
    \/ CrCreateOrder(c)
    \/ CrRollback(c)
    \/ CrRelease(c)

\* the reservation service with order ids beside the business owner
NextOrder ==
    \/ Tick
    \/ \E c \in Customers :
          /\ OthersInFlight(c) <= MaxOverlap
          /\ CreateReservationOrder(c) \/ Reply(c)
    \/ Business
SpecOrder == Init /\ [][NextOrder]_vars

\* the same without the business owner, the customers overlapping freely
NextOrderAlone ==
    \/ Tick
    \/ \E c \in Customers : CreateReservationOrder(c) \/ Reply(c)
SpecOrderAlone == Init /\ [][NextOrderAlone]_vars

\* ------------------------- handle_confirm_reserve, the path without the lock
\* reserve_handler.py line 123-159: no reservation_flow_service in bot_data,
\* the handler decrements and creates by itself and takes no lock.

\* line 127-132: load the offer and check that it exists and has the quantity
FallbackGetOffer(c, o, q) ==
    /\ cust[c].pc = "idle"
    /\ LET offer == get_by_id(offers, o)
           call == [IdleCustomer EXCEPT !.op = "confirm_reserve_fallback",
                                        !.offer_id = o, !.quantity = q]
       IN cust' = [cust EXCEPT ![c] =
            IF offer = NoOffer \/ q > offer.quantity_remaining
            THEN [call EXCEPT !.pc = "reply",
                              !.result = Res(FALSE, "reservation_failed", "none")]
            ELSE [call EXCEPT !.pc = "cr_decrement", !.snap = Snapshot(offer)]]
    /\ UNCHANGED <<offers, reservations, lock, now, biz, sched>>

\* line 139-158: reservation_repo.create with the values of the offer loaded
\* at line 127; an exception is not caught here
FallbackCreate(c) ==
    /\ cust[c].pc = "cr_create"
    /\ cust[c].op = "confirm_reserve_fallback"
    /\ reservations' = Append(reservations,
           NewReservation(cust[c].offer_id, cust[c].quantity,
                          cust[c].snap.pickup_end_time))
    /\ cust' = [cust EXCEPT ![c] = [cust[c] EXCEPT !.pc = "reply",
                   !.snap = NoSnapshot,
                   !.result = Res(TRUE, "confirmed", "none")]]
    /\ UNCHANGED <<offers, lock, now, biz, sched>>

\* line 134-137 is decrement_quantity, taken statement by statement
ConfirmReserveFallback(c) ==
    \/ /\ TableHasRoom
       /\ \E o \in OfferIds, q \in 1..MaxQty : FallbackGetOffer(c, o, q)
    \/ CrDecrementSelect(c)
    \/ CrDecrementFlush(c)
    \/ FallbackCreate(c)

\* customers on the path without the lock, overlapping freely
NextBypass ==
    \/ Tick
    \/ \E c \in Customers : ConfirmReserveFallback(c) \/ Reply(c)
SpecBypass == Init /\ [][NextBypass]_vars

\* ---------------------------------------------------------------- late release
\* The key of customer 1 runs out (ex=ttl_seconds) while customer 1 is still
\* inside the lock context and no other call holds a key on the offer; the
\* key of any call that acquires afterwards stays within its TTL.  In these
\* behaviours a key that is set while both calls are inside the context is
\* the key the other call acquired.
LockExpiresLate(o) ==
    /\ cust[1].acquired
    /\ cust[1].offer_id = o
    /\ \A d \in Customers \ {1} : ~(cust[d].acquired /\ cust[d].offer_id = o)
    /\ LockExpires(o)

NextLate ==
    \/ \E c \in Customers : CreateReservationLease(c) \/ Reply(c)
    \/ \E o \in ExistingOffers : LockExpiresLate(o)
SpecLate == Init /\ [][NextLate]_vars

\* ---------------------------------------------------------------- cancel, statement by statement
\* PostgresReservationRepository.cancel taken at its awaits: the SELECT with
\* the status check on the row it returned (lines 159-169), then the
\* assignments with flush and commit (lines 171-176).  No lock, row lock or
\* conditional UPDATE lies between the two.
cancel_flush(tbl, rid, reason, t) ==
    [tbl EXCEPT ![rid] = [@ EXCEPT !.status = "CANCELLED",
                                   !.cancellation_reason = reason,
                                   !.cancelled_at = t]]

CcCancelSelect(c) ==
    /\ cust[c].pc = "cc_cancel"
    /\ cust' = [cust EXCEPT ![c] =
          IF cust[c].rid \notin 1..Len(reservations)
          THEN [cust[c] EXCEPT !.pc = "reply",
                   !.result = Res(FALSE, "cancel_failed", "not_found")]
          ELSE IF reservations[cust[c].rid].status # "CONFIRMED"
          THEN [cust[c] EXCEPT !.pc = "reply",
                   !.result = Res(FALSE, "cancel_failed", "invalid_status")]
          ELSE [cust[c] EXCEPT !.pc = "cc_cancel_flush"]]
    /\ UNCHANGED <<offers, reservations, lock, now, biz, sched>>

CcCancelFlush(c) ==
    /\ cust[c].pc = "cc_cancel_flush"
    /\ reservations' = cancel_flush(reservations, cust[c].rid,
                                    "customer_requested", now)
    /\ cust' = [cust EXCEPT ![c] = [cust[c] EXCEPT !.pc = "reply",
                   !.result = Res(TRUE, "cancelled", "none")]]
    /\ UNCHANGED <<offers, lock, now, biz, sched>>

CancelReservationSteps(c) ==
    \/ \E rid \in ReservationIds : HandleCancelReservation(c, rid)
    \/ \E rid \in ReservationIds : CcGetReservation(c, rid)
    \/ CcCancelSelect(c)
    \/ CcCancelFlush(c)

NextCancelRace ==
    \/ Tick
    \/ \E c \in Customers :
          CreateReservation(c) \/ CancelReservationSteps(c) \/ Reply(c)
SpecCancelRace == Init /\ [][NextCancelRace]_vars

\* ---------------------------------------------------------------- reserve_items
\* InventoryReservation.reserve_items over the interface its code uses and
\* its unit tests supply: an offer that carries `items` (name, quantity) and
\* a repository whose decrement_quantity takes the offer, the item name and
\* the quantity.  The service is wired into no handler.
MaxItems == 2
ItemNames == {"Sandwich", "Salad"}
RequestNames == ItemNames \cup {"Soup"}
ItemRequest == [item_name : RequestNames, quantity : 1..MaxQty]
ItemRequests ==
    UNION {[1..n -> ItemRequest] : n \in 1..MaxItems}

ItemOffer(quantities, pickup_end) ==
    [items |-> quantities, state |-> "ACTIVE", pickup_end_time |-> pickup_end]

decrement_item(tbl, id, item_name, quantity) ==
    IF \/ id \notin DOMAIN tbl
       \/ item_name \notin DOMAIN tbl[id].items
       \/ tbl[id].items[item_name] < quantity
    THEN [ok |-> FALSE, tbl |-> tbl]
    ELSE [ok |-> TRUE,
          tbl |-> [tbl EXCEPT ![id].items[item_name] = @ - quantity]]

NewItemReservation == [success |-> FALSE, items |-> <<>>, error |-> "none"]

IdleReserver ==
    [pc |-> "idle", op |-> "none", offer_id |-> "unknown",
     item_requests |-> <<>>, next |-> 1, acquired |-> FALSE,
     offer |-> NoOffer, reservation |-> NewItemReservation]

InitItems ==
    /\ \E quantities \in [ItemNames -> 1..MaxQty], pickup_end \in 1..MaxTime :
          offers = [o \in ExistingOffers |-> ItemOffer(quantities, pickup_end)]
    /\ reservations = <<>>
    /\ lock = [o \in OfferIds |-> FALSE]
    /\ now = 0
    /\ cust = [c \in Customers |-> IdleReserver]
    /\ biz = IdleBusiness
    /\ sched = SleepingScheduler

\* lines 66-71: enter the lock context; a busy offer yields the error
RiEnter(c, o, reqs) ==
    /\ cust[c].pc = "idle"
    /\ LET r == acquire_offer_lock(lock, o)
           call == [IdleReserver EXCEPT !.op = "reserve_items",
                       !.offer_id = o, !.item_requests = reqs]
       IN /\ lock' = r.lock
          /\ cust' = [cust EXCEPT ![c] =
                IF r.acquired
                THEN [call EXCEPT !.pc = "ri_get", !.acquired = TRUE]
                ELSE [call EXCEPT !.pc = "ri_yield",
                                  !.reservation.error = "lock"]]
    /\ UNCHANGED <<offers, reservations, now, biz, sched>>

\* the first request the validation loop of lines 88-117 rejects, 0 if none
FirstInvalid(offer, reqs) ==
    LET bad == {i \in 1..Len(reqs) :
                  \/ reqs[i].item_name \notin DOMAIN offer.items
                  \/ offer.items[reqs[i].item_name] < reqs[i].quantity}
    IN IF bad = {} THEN 0 ELSE CHOOSE i \in bad : \A j \in bad : i <= j

\* lines 73-117: get_by_id, the expiry check and the validation loop
RiValidate(c) ==
    /\ cust[c].pc = "ri_get"
    /\ LET offer == get_by_id(offers, cust[c].offer_id)
           reqs == cust[c].item_requests
           bad == FirstInvalid(offer, reqs)
       IN cust' = [cust EXCEPT ![c] =
            IF offer = NoOffer
            THEN [cust[c] EXCEPT !.pc = "ri_yield",
                     !.reservation.error = "offer_not_found"]
            ELSE IF is_expired(offer, now)
            THEN [cust[c] EXCEPT !.pc = "ri_yield", !.offer = offer,
                     !.reservation.error = "expired"]
            ELSE IF bad # 0
            THEN [cust[c] EXCEPT !.pc = "ri_yield", !.offer = offer,
                     !.reservation.items = SubSeq(reqs, 1, bad - 1),
                     !.reservation.error =
                        IF reqs[bad].item_name \notin DOMAIN offer.items
                        THEN "item_not_found" ELSE "insufficient"]
            ELSE [cust[c] EXCEPT !.pc = "ri_decrement", !.offer = offer,
                     !.reservation.items = reqs]]
    /\ UNCHANGED <<offers, reservations, lock, now, biz, sched>>

\* lines 119-136: one pass of the decrement loop; a refused decrement yields
\* the error at once (line 128: the earlier decrements are not rolled back),
\* the last one sets success
RiDecrement(c) ==
    /\ cust[c].pc = "ri_decrement"
    /\ LET req == cust[c].item_requests[cust[c].next]
           r == decrement_item(offers, cust[c].offer_id, req.item_name,
                               req.quantity)
       IN /\ offers' = r.tbl
          /\ cust' = [cust EXCEPT ![c] =
                IF ~r.ok
                THEN [cust[c] EXCEPT !.pc = "ri_yield",
                         !.reservation.error = "failed_to_reserve"]
                ELSE IF cust[c].next = Len(cust[c].item_requests)
                THEN [cust[c] EXCEPT !.pc = "ri_yield",
                         !.reservation.success = TRUE]
                ELSE [cust[c] EXCEPT !.next = @ + 1]]
    /\ UNCHANGED <<reservations, lock, now, biz, sched>>

\* the caller's block ends and the lock context is left
RiExit(c) ==
    /\ cust[c].pc = "ri_yield"
    /\ lock' = release_offer_lock(lock, cust[c].offer_id, cust[c].acquired)
    /\ cust' = [cust EXCEPT ![c] = IdleReserver]
    /\ UNCHANGED <<offers, reservations, now, biz, sched>>

reserve_items(c) ==
    \/ \E o \in OfferIds, reqs \in ItemRequests : RiEnter(c, o, reqs)
    \/ RiValidate(c)
    \/ RiDecrement(c)
    \/ RiExit(c)

NextItems ==
    \/ Tick
    \/ \E c \in Customers : reserve_items(c)
SpecItems == InitItems /\ [][NextItems]_vars

\* ============================================================== properties

\* quantity held by the CONFIRMED rows 1..n of the reservations table for o
RECURSIVE ConfirmedUpTo(_, _)
ConfirmedUpTo(o, n) ==
    IF n = 0 THEN 0
    ELSE ConfirmedUpTo(o, n - 1)
         + (IF reservations[n].offer_id = o /\ reservations[n].status = "CONFIRMED"
            THEN reservations[n].quantity ELSE 0)
ConfirmedQty(o) == ConfirmedUpTo(o, Len(reservations))

\* quantity already decremented by calls 1..n that have not yet persisted
\* their reservation or rolled the decrement back
RECURSIVE PendingUpTo(_, _)
PendingUpTo(o, n) ==
    IF n = 0 THEN 0
    ELSE PendingUpTo(o, n - 1)
         + (IF cust[n].offer_id = o /\ cust[n].pc \in {"cr_create", "cr_rollback"}
            THEN cust[n].quantity ELSE 0)
PendingQty(o) == PendingUpTo(o, Cardinality(DOMAIN cust))

\* C1 (as claimed): conservation.  For every offer, under create-reservation
\* and cancel-reservation operations only, quantity_remaining plus the
\* quantity of its CONFIRMED reservations (plus what a call in flight has
\* decremented and not yet persisted) equals quantity_total.
C1_Conservation ==
    \A o \in DOMAIN offers :
        offers[o].quantity_remaining + ConfirmedQty(o) + PendingQty(o)
            = offers[o].quantity_total

\* C2 (as claimed): no overselling.  Under every interleaving of concurrent
\* create_reservation calls on an offer, the summed quantity of the calls
\* that succeeded never exceeds the quantity_remaining the offer had before
\* them (its quantity_total: the calls start on a fresh offer), and
\* quantity_remaining is never negative.
C2_NoOverselling ==
    \A o \in DOMAIN offers :
        /\ ConfirmedQty(o) <= offers[o].quantity_total
        /\ offers[o].quantity_remaining >= 0

\* the calls that have ended, by their outcome
RaceSuccesses == {c \in DOMAIN cust : cust[c].pc = "reply" /\ cust[c].result.success}
RaceFailures == {c \in DOMAIN cust : cust[c].pc = "reply" /\ ~cust[c].result.success}

\* C3 (as claimed): on an offer of 5 units, three concurrent attempts of 2
\* units each end, in every interleaving, with exactly 2 successes, exactly
\* 1 failure and quantity_remaining = 1.
C3_RaceOutcome ==
    (\A c \in DOMAIN cust : cust[c].pc = "reply")
        => /\ Cardinality(RaceSuccesses) = 2
           /\ Cardinality(RaceFailures) = 1
           /\ \A o \in DOMAIN offers : offers[o].quantity_remaining = 1

\* C4: in every reachable state every offer has
\* 0 <= quantity_remaining <= quantity_total, whatever decrements, rollback
\* increments, quantity edits and state transitions came before.
C4_QuantityBounds ==
    \A o \in DOMAIN offers :
        /\ 0 <= offers[o].quantity_remaining
        /\ offers[o].quantity_remaining <= offers[o].quantity_total

\* C4 witness: a quantity edit refilled the offer while a reservation was
\* being created, and the rollback increment that would have passed
\* quantity_total was refused
C4_Witness ==
    \E c \in DOMAIN cust :
        /\ cust[c].op = "create_reservation"
        /\ cust[c].result.raised = "integrity_error"
        /\ offers[cust[c].offer_id].quantity_remaining
              = offers[cust[c].offer_id].quantity_total

\* the reservation rows a step moves from CONFIRMED to CANCELLED
CancelledByStep ==
    {r \in 1..Len(reservations) :
        /\ reservations[r].status = "CONFIRMED"
        /\ reservations'[r].status = "CANCELLED"}

\* C5 (as claimed): cancelling a CONFIRMED reservation of quantity q raises
\* the quantity_remaining of its offer by exactly q.
C5_CancelReturnsInventory ==
    [][\A r \in CancelledByStep :
          LET o == reservations[r].offer_id
          IN offers'[o].quantity_remaining
                = offers[o].quantity_remaining + reservations[r].quantity]_vars

\* C6: idempotent cancellation.  Cancelling a reservation that is already
\* CANCELLED fails (the store raises its invalid-status error, the prompt
\* answers that it has already been cancelled) and changes neither the
\* reservations table nor the offers table.
C6_IdempotentCancellation ==
    [][\A c \in DOMAIN cust :
          /\ ( /\ cust[c].pc = "cc_cancel"
               /\ cust'[c].pc = "reply"
               /\ reservations[cust[c].rid].status = "CANCELLED" )
             => /\ cust'[c].result = Res(FALSE, "cancel_failed", "invalid_status")
                /\ reservations' = reservations
                /\ offers' = offers
          /\ ( /\ cust[c].pc = "idle"
               /\ cust'[c].op = "cancel_reservation"
               /\ cust'[c].rid \in 1..Len(reservations)
               /\ reservations[cust'[c].rid].status = "CANCELLED" )
             => /\ cust'[c].result = Res(FALSE, "already_been", "none")
                /\ reservations' = reservations
                /\ offers' = offers]_vars

\* C6 witness: a confirmed cancellation ran on a row that was CANCELLED
\* before, at a later time than the first cancellation
C6_Witness ==
    \E c \in DOMAIN cust :
        /\ cust[c].pc = "reply"
        /\ cust[c].op = "confirm_cancel"
        /\ cust[c].result.raised = "invalid_status"
        /\ reservations[cust[c].rid].status = "CANCELLED"
        /\ reservations[cust[c].rid].cancelled_at < now

\* the test of the message made by the unit tests: "expired" occurs in it
MentionsExpired(message) == \E i \in DOMAIN message : message[i] = "expired"

\* C7 (as claimed): expiration precedence.  create_reservation on an offer
\* whose pickup_end_time has passed and that still has quantity_remaining > 0
\* fails with a message that says the offer expired, not with the
\* insufficient-inventory message, and creates no reservation.
C7_ExpirationPrecedence ==
    [][\A c \in DOMAIN cust :
          ( /\ cust[c].pc = "cr_get"
            /\ cust'[c].pc # "cr_get"
            /\ cust'[c].result.raised = "none"
            /\ cust[c].offer_id \in DOMAIN offers
            /\ is_expired(offers[cust[c].offer_id], now)
            /\ offers[cust[c].offer_id].quantity_remaining > 0 )
          => /\ cust'[c].pc = "cr_release"
             /\ ~cust'[c].result.success
             /\ cust'[c].result.reason # "only_n_units"
             /\ MentionsExpired(Message(cust'[c].result.reason))
             /\ reservations' = reservations]_vars

\* C8 (as claimed): sold-out reactivation.  A cancellation of a reservation
\* whose offer is SOLD_OUT and not past pickup_end_time leaves the offer
\* ACTIVE; one whose offer is SOLD_OUT and past pickup_end_time does not
\* make it ACTIVE.
C8_SoldOutReactivation ==
    [][\A r \in CancelledByStep :
          LET o == reservations[r].offer_id
          IN offers[o].state = "SOLD_OUT"
                => IF is_expired(offers[o], now)
                   THEN offers'[o].state # "ACTIVE"
                   ELSE offers'[o].state = "ACTIVE"]_vars

\* the calls that hold the lock of offer o: acquire yielded True and the
\* lock context has not been left
Holders(o) == {c \in DOMAIN cust : cust[c].acquired /\ cust[c].offer_id = o}

\* C9: mutual exclusion.  For each offer id at most one caller holds the
\* lock at any time (no holder outlives the TTL here), and an acquire made
\* while the key exists yields False.
C9_MutualExclusion ==
    [][\A o \in OfferIds :
          /\ Cardinality(Holders(o)) <= 1
          /\ Cardinality(Holders(o)') <= 1
          /\ \A c \in DOMAIN cust :
                ( /\ cust[c].pc = "idle"
                  /\ cust'[c].op = "create_reservation"
                  /\ cust'[c].offer_id = o
                  /\ lock[o] )
                => /\ ~cust'[c].acquired
                   /\ cust'[c].result = Res(FALSE, "locked", "none")
                   /\ lock' = lock]_vars

\* C9 witness: one call holds the lock of an offer and a second call on the
\* same offer was refused
C9_Witness ==
    \E c, d \in DOMAIN cust :
        /\ c # d
        /\ cust[c].acquired
        /\ cust[d].pc = "reply"
        /\ cust[d].result.reason = "locked"
        /\ cust[d].offer_id = cust[c].offer_id

\* C10: guaranteed release.  The lock key of an offer exists only while a
\* create_reservation call that acquired it is inside the lock context; a
\* call that has ended, on whatever exit path, holds nothing.
C10_GuaranteedRelease ==
    /\ \A o \in OfferIds :
          lock[o] => \E c \in Holders(o) :
                        cust[c].pc \in {"cr_get", "cr_decrement", "cr_create",
                                        "cr_rollback", "cr_release"}
    /\ \A c \in DOMAIN cust :
          cust[c].pc \in {"idle", "reply"} => ~cust[c].acquired

\* C10 witness: a call ended on the rollback path of a failed persistence,
\* and the next call on the same offer acquired the lock at once
C10_Witness ==
    \E c, d \in DOMAIN cust :
        /\ c # d
        /\ cust[c].pc = "reply"
        /\ cust[c].result.reason = "create_failed"
        /\ cust[d].acquired
        /\ cust[d].offer_id = cust[c].offer_id

\* C11: fail fast on a busy offer.  A create_reservation that finds the
\* lock key of its offer set ends at once with the offer-is-locked failure:
\* it reads no offer, decrements nothing, creates no reservation and leaves
\* the key of the holder in place, also when its reply is sent.
C11_FailFast ==
    [][\A c \in DOMAIN cust :
          /\ ( /\ cust[c].pc = "idle"
               /\ cust'[c].op = "create_reservation"
               /\ lock[cust'[c].offer_id] )
             => /\ cust'[c].pc = "reply"
                /\ cust'[c].result = Res(FALSE, "locked", "none")
                /\ cust'[c].snap = NoSnapshot
                /\ offers' = offers
                /\ reservations' = reservations
                /\ lock' = lock
          /\ ( /\ cust[c].pc = "reply"
               /\ cust[c].result.reason = "locked"
               /\ cust'[c].pc = "idle" )
             => /\ offers' = offers
                /\ reservations' = reservations
                /\ lock' = lock]_vars

\* C11 witness: a call was refused while the holder, which had validated
\* the offer, was about to decrement; the key is still set
C11_Witness ==
    \E c, d \in DOMAIN cust :
        /\ c # d
        /\ cust[c].pc = "cr_decrement"
        /\ cust[d].pc = "reply"
        /\ cust[d].result.reason = "locked"
        /\ cust[d].offer_id = cust[c].offer_id
        /\ lock[cust[c].offer_id]

\* C12: TTL self-healing.  A lock key that is set, whether its holder is
\* running, stalled or dead, is eventually gone, and acquire_offer_lock then
\* succeeds for any other caller: no lost lock blocks an offer for ever.
C12_TtlSelfHealing ==
    \A o \in OfferIds :
        lock[o] ~> acquire_offer_lock(lock, o).acquired

\* C12 witness: a holder died without releasing and another call has since
\* acquired the lock of the same offer
C12_Witness ==
    \E c, d \in DOMAIN cust :
        /\ c # d
        /\ cust[c].pc = "crashed"
        /\ cust[c].acquired
        /\ cust[d].offer_id = cust[c].offer_id
        /\ cust[d].pc = "cr_get"
        /\ cust[d].acquired
        /\ lock[cust[c].offer_id]

\* C13: per-offer lock scope.  Whether an acquire succeeds depends on the
\* key of its own offer only: with the lock of another offer held it still
\* succeeds, it leaves every other key as it is, and no step of a call on
\* one offer changes the row of another offer.
C13_PerOfferScope ==
    [][\A c \in DOMAIN cust :
          /\ ( /\ cust[c].pc = "idle"
               /\ cust'[c].op = "create_reservation" )
             => LET o == cust'[c].offer_id
                IN /\ cust'[c].acquired <=> ~lock[o]
                   /\ cust'[c].acquired => cust'[c].pc = "cr_get"
                   /\ \A p \in DOMAIN lock : p # o => lock'[p] = lock[p]
          /\ ( /\ cust[c].pc # "idle"
               /\ cust'[c] # cust[c] )
             => \A p \in DOMAIN offers :
                    p # cust[c].offer_id
                    => offers'[p] = offers[p] /\ lock'[p] = lock[p]]_vars

\* C13 witness: two calls hold the locks of two different offers at the same
\* time, both past validation
C13_Witness ==
    \E c, d \in DOMAIN cust :
        /\ cust[c].offer_id = "offerA"
        /\ cust[d].offer_id = "offerB"
        /\ cust[c].acquired /\ cust[c].pc = "cr_decrement"
        /\ cust[d].acquired /\ cust[d].pc = "cr_decrement"
        /\ lock["offerA"] /\ lock["offerB"]

\* C14: every write under the lock.  Whenever a step changes the
\* quantity_remaining or the state of an offer, the process that takes the
\* step holds the lock of that offer.
C14_WritesUnderLock ==
    [][\A o \in DOMAIN offers :
          ( \/ offers'[o].quantity_remaining # offers[o].quantity_remaining
            \/ offers'[o].state # offers[o].state )
          => /\ lock[o]
             /\ \E c \in Holders(o) : cust'[c] # cust[c]]_vars

\* the create_reservation calls on offer o that have validated the offer
\* (line 49-61) and have not finished decrementing and persisting (line 92)
Validated(o) ==
    {c \in DOMAIN cust :
        /\ cust[c].op = "create_reservation"
        /\ cust[c].offer_id = o
        /\ cust[c].pc \in {"cr_decrement", "cr_decrement_flush",
                           "cr_create", "cr_rollback"}}

C16_CancelUnderLock ==
    \A c \in DOMAIN cust :
        ( /\ cust[c].op = "confirm_cancel"
          /\ cust[c].pc = "cc_cancel" )
        => \A d \in DOMAIN cust :
              ~ ( /\ cust[d].op = "create_reservation"
                  /\ cust[d].acquired
                  /\ cust[d].offer_id = reservations[cust[c].rid].offer_id )

\* C17: EXPIRED and EXPIRED_EARLY are terminal.  No step changes the state
\* of an offer that is EXPIRED or EXPIRED_EARLY.
C17_TerminalStates ==
    [][\A o \in DOMAIN offers :
          offers[o].state \in {"EXPIRED", "EXPIRED_EARLY"}
          => offers'[o].state = offers[o].state]_vars

\* C18: compensation.  When persisting the reservation fails after the
\* decrement, no reservation row is written, and the rollback puts the
\* requested quantity back before the call returns its failure:
\* quantity_remaining is again what it was when the call loaded the offer.
C18_Compensation ==
    [][\A c \in DOMAIN cust :
          /\ ( /\ cust[c].pc = "cr_create"
               /\ cust'[c].pc = "cr_rollback" )
             => reservations' = reservations
          /\ ( /\ cust[c].pc = "cr_rollback"
               /\ cust'[c].pc # "cr_rollback" )
             => LET o == cust[c].offer_id
                IN /\ cust'[c].result = Res(FALSE, "create_failed", "none")
                   /\ offers'[o].quantity_remaining
                         = offers[o].quantity_remaining + cust[c].quantity
                   /\ offers'[o].quantity_remaining
                         = cust[c].snap.quantity_remaining
                   /\ reservations' = reservations]_vars

\* C19: reservations only against reservable offers.  At the step that
\* decrements the inventory for a reservation the offer is ACTIVE, its pickup
\* window has not ended and it has at least the requested quantity; no
\* reservation is made against a PAUSED, SOLD_OUT, EXPIRED or EXPIRED_EARLY
\* offer.
C19_OnlyReservableOffers ==
    [][\A c \in DOMAIN cust :
          ( /\ cust[c].op = "create_reservation"
            /\ cust[c].pc \in {"cr_decrement", "cr_decrement_flush"}
            /\ cust'[c].pc = "cr_create" )
          => LET offer == offers[cust[c].offer_id]
             IN /\ offer.state = "ACTIVE"
                /\ now < offer.pickup_end_time
                /\ offer.quantity_remaining >= cust[c].quantity]_vars

\* C20: expiration liveness.  While the scheduler loop keeps running, every
\* offer that is ACTIVE or PAUSED with pickup_end_time <= now is eventually
\* EXPIRED (or was ended by its owner before the sweep got to it).
C20_ExpirationLiveness ==
    \A o \in ExistingOffers :
        ( /\ offers[o].state \in {"ACTIVE", "PAUSED"}
          /\ offers[o].pickup_end_time <= now )
        ~> offers[o].state \in {"EXPIRED", "EXPIRED_EARLY"}

\* C21: no lingering empty offer.  Whenever an offer is ACTIVE or PAUSED
\* with quantity_remaining = 0, it is eventually SOLD_OUT, EXPIRED or
\* EXPIRED_EARLY.
C21_EmptyOfferResolved ==
    \A o \in ExistingOffers :
        ( /\ offers[o].quantity_remaining = 0
          /\ offers[o].state \in {"ACTIVE", "PAUSED"} )
        ~> offers[o].state \in {"SOLD_OUT", "EXPIRED", "EXPIRED_EARLY"}

C24_EndOnlyFromActiveOrPaused ==
    [][\A o \in ExistingOffers :
          /\ ( /\ offers'[o].state = "EXPIRED_EARLY"
               /\ offers[o].state # "EXPIRED_EARLY" )
             => offers[o].state \in {"ACTIVE", "PAUSED"}
          /\ ( /\ biz.op = "confirm_end"
               /\ biz.offer_id = o
               /\ biz.pc = "end_write"
               /\ offers[o].state \in {"SOLD_OUT", "EXPIRED", "EXPIRED_EARLY"} )
             => offers'[o].state = offers[o].state]_vars

C26_SnapshotSemantics ==
    [][/\ \A c \in DOMAIN cust :
             ( /\ cust[c].pc = "cr_get"
               /\ cust'[c].pc = "cr_decrement" )
             => /\ cust'[c].loaded.price_per_unit
                      = offers[cust[c].offer_id].price_per_unit
                /\ cust'[c].loaded.pickup_start_time
                      = offers[cust[c].offer_id].pickup_start_time
                /\ cust'[c].loaded.pickup_end_time
                      = offers[cust[c].offer_id].pickup_end_time
       /\ \A c \in DOMAIN cust :
             ( /\ cust[c].pc = "cr_create"
               /\ Len(reservations') = Len(reservations) + 1 )
             => LET row == reservations'[Len(reservations')]
                IN /\ row.unit_price = cust[c].loaded.price_per_unit
                   /\ row.total_price = row.quantity * row.unit_price
                   /\ row.pickup_start_time = cust[c].loaded.pickup_start_time
                   /\ row.pickup_end_time = cust[c].loaded.pickup_end_time
       /\ \A i \in 1..Len(reservations) :
             /\ i <= Len(reservations')
             /\ reservations'[i].unit_price = reservations[i].unit_price
             /\ reservations'[i].total_price = reservations[i].total_price
             /\ reservations'[i].pickup_start_time
                   = reservations[i].pickup_start_time
             /\ reservations'[i].pickup_end_time
                   = reservations[i].pickup_end_time]_vars

\* C26 witness: the price and the pickup end of the offer were both edited
\* after a reservation was made, and the row still carries the old values
C26_Witness ==
    \E i \in 1..Len(reservations) :
        /\ reservations[i].unit_price
              # offers[reservations[i].offer_id].price_per_unit
        /\ reservations[i].pickup_end_time
              # offers[reservations[i].offer_id].pickup_end_time
        /\ biz.pc = "reply"
        /\ biz.result.success
        /\ biz.op \in {"edit_price", "edit_pickup_end"}

\* C27: force_sold_out.  A call on an ACTIVE or PAUSED offer succeeds and
\* leaves the offer SOLD_OUT, whatever its remaining quantity; a call on an
\* offer that is already SOLD_OUT succeeds and writes nothing; a call on an
\* EXPIRED or EXPIRED_EARLY offer is rejected and writes nothing.
C27_ForceSoldOut ==
    [][\A o \in ExistingOffers :
          ( /\ biz.pc = "idle"
            /\ biz'.pc = "reply"
            /\ biz'.op = "force_sold_out"
            /\ biz'.offer_id = o )
          => /\ offers[o].state \in {"ACTIVE", "PAUSED"}
                => /\ biz'.result.success
                   /\ offers'[o].state = "SOLD_OUT"
             /\ offers[o].state = "SOLD_OUT"
                => /\ biz'.result.success
                   /\ offers' = offers
             /\ offers[o].state \in {"EXPIRED", "EXPIRED_EARLY"}
                => /\ ~biz'.result.success
                   /\ offers' = offers]_vars

\* C28: check_and_transition_to_sold_out.  The call returns true exactly when
\* the offer exists, is ACTIVE or PAUSED and has no quantity left; when it
\* returns true the offer is SOLD_OUT afterwards, when it returns false the
\* offers table is unchanged.
C28_CheckAndTransition ==
    [][\A o \in OfferIds :
          ( /\ biz.pc = "idle"
            /\ biz'.pc = "reply"
            /\ biz'.op = "check_and_transition"
            /\ biz'.offer_id = o )
          => /\ biz'.result.success
                <=> /\ o \in DOMAIN offers
                    /\ offers[o].state \in {"ACTIVE", "PAUSED"}
                    /\ offers[o].quantity_remaining = 0
             /\ biz'.result.success => offers'[o].state = "SOLD_OUT"
             /\ ~biz'.result.success => offers' = offers]_vars

\* C29: sweep resilience.  A pass of the sweep ends only when every offer it
\* selected has been tried: at the step that ends a pass, at most one of the
\* offers still to be processed (the one whose write has just failed) is
\* left in a state other than EXPIRED.
C29_SweepResilience ==
    [][( /\ sched.pc = "update"
         /\ sched'.pc = "sleep" )
       => Cardinality({o \in sched.expired : offers'[o].state # "EXPIRED"})
             <= 1]_vars

\* C30: the scheduler loop never ends because of an error.  start has
\* returned only if stop() was called, and after a pass has logged a
\* failure (of one offer or of the whole query) the loop, back in its sleep,
\* starts another pass on the offers that are due, unless stop() is called
\* or nothing is due any more.
C30_LoopSurvivesErrors ==
    /\ [](sched.pc = "ended" => ~sched.running)
    /\ (sched.logged_error /\ sched.pc = "sleep")
          ~> \/ sched.pc = "update"
             \/ ~sched.running
             \/ get_expired_offers(offers, now) = {}

\* C30 witness: a pass is at its write after an earlier pass logged a
\* failure, and stop() has not been called
C30_Witness ==
    /\ sched.logged_error
    /\ sched.pc = "update"
    /\ sched.running

\* C31: cancellation window.  A cancellation (the prompt or the confirmed
\* cancel) requested on a reservation whose own pickup_end_time is not after
\* the clock is rejected at once and changes neither the reservations nor
\* the offers table, whatever the pickup_end_time of the live offer is; and
\* a confirmed cancel requested before the reservation's own pickup_end_time
\* goes on to the store's cancel, whatever the live offer says.
C31_CancellationWindow ==
    [][\A c \in DOMAIN cust :
          ( /\ cust[c].pc = "idle"
            /\ cust'[c].op \in {"cancel_reservation", "confirm_cancel"}
            /\ cust'[c].rid \in 1..Len(reservations) )
          => /\ now >= reservations[cust'[c].rid].pickup_end_time
                => /\ cust'[c].pc = "reply"
                   /\ ~cust'[c].result.success
                   /\ reservations' = reservations
                   /\ offers' = offers
             /\ ( /\ now < reservations[cust'[c].rid].pickup_end_time
                  /\ cust'[c].op = "confirm_cancel" )
                => cust'[c].pc = "cc_cancel"]_vars

\* C31 witness: a confirmed cancel was rejected because the reservation's own
\* window is over, while the live offer, edited since, is still open
C31_Witness ==
    \E c \in DOMAIN cust :
        /\ cust[c].op = "confirm_cancel"
        /\ cust[c].pc = "reply"
        /\ cust[c].result.reason = "window_ended"
        /\ cust[c].rid \in 1..Len(reservations)
        /\ reservations[cust[c].rid].status = "CONFIRMED"
        /\ now >= reservations[cust[c].rid].pickup_end_time
        /\ now < offers[reservations[cust[c].rid].offer_id].pickup_end_time

C34_AtomicStoreOps ==
    \A o \in DOMAIN offers :
        /\ offers[o].quantity_remaining >= 0
        /\ offers[o].quantity_remaining
              = offers[o].quantity_total - ConfirmedQty(o) - PendingQty(o)

\* C35: failed decrement.  When decrement_quantity fails inside
\* create_reservation (the row no longer holds the requested quantity), the
\* call leaves the offers and reservations tables as they are and reports a
\* failure; the rest of the call (leaving the lock context, the answer)
\* writes neither table, so no reservation is created.
C35_FailedDecrementAborts ==
    [][\A c \in DOMAIN cust :
          /\ ( /\ cust[c].pc = "cr_decrement"
               /\ cust'[c].pc # "cr_decrement"
               /\ \/ cust[c].offer_id \notin DOMAIN offers
                  \/ offers[cust[c].offer_id].quantity_remaining
                        < cust[c].quantity )
             => /\ cust'[c].pc = "cr_release"
                /\ cust'[c].result = Res(FALSE, "decrement_failed", "none")
                /\ reservations' = reservations
                /\ offers' = offers
          /\ ( /\ cust[c].result.reason = "decrement_failed"
               /\ cust'[c] # cust[c] )
             => /\ cust'[c].pc \in {"reply", "idle"}
                /\ reservations' = reservations
                /\ offers' = offers]_vars

\* C35 witness: a call has answered that the decrement failed; the offer it
\* had validated was emptied by the owner before the decrement
C35_Witness ==
    \E c \in DOMAIN cust :
        /\ cust[c].pc = "reply"
        /\ cust[c].op = "create_reservation"
        /\ cust[c].result = Res(FALSE, "decrement_failed", "none")
        /\ offers[cust[c].offer_id].quantity_remaining < cust[c].quantity

\* C36: failed compensation.  When the compensating increment_quantity of
\* create_reservation does not restore the quantity (it raises, or returns
\* false), the call records the failure as reconciliation-required: what the
\* call reports after the rollback step names the failed compensation.
C36_FailedCompensationFlagged ==
    [][\A c \in DOMAIN cust :
          ( /\ cust[c].pc = "cr_rollback"
            /\ cust'[c].pc # "cr_rollback"
            /\ LET r == increment_quantity(offers, cust[c].offer_id,
                                           cust[c].quantity, now)
               IN r.raised \/ ~r.ok )
          => cust'[c].result.reason = "reconciliation_required"]_vars

\* C37: frame of the state changes.  The write of pause, of resume and of
\* end-now, a force_sold_out call and the steps of the expiration sweep leave
\* every field of every offer but its state as it was: quantity_remaining
\* and quantity_total are never changed by them.
C37_StateChangesKeepQuantities ==
    [][( \/ /\ biz.pc \in {"pause_write", "resume_write", "end_write"}
            /\ biz' # biz
         \/ /\ biz.pc = "idle"
            /\ biz'.op = "force_sold_out"
         \/ sched' # sched )
       => \A o \in DOMAIN offers :
             /\ o \in DOMAIN offers'
             /\ offers'[o].quantity_remaining = offers[o].quantity_remaining
             /\ offers'[o].quantity_total = offers[o].quantity_total
             /\ offers'[o] = [offers[o] EXCEPT !.state = offers'[o].state]]_vars

\* C37 witness: a pause has been written on an offer whose remaining quantity
\* is below its total, and the two quantities still differ
C37_Witness ==
    /\ biz.pc = "reply"
    /\ biz.op = "pause"
    /\ biz.result.success
    /\ biz.offer_id \in DOMAIN offers
    /\ offers[biz.offer_id].state = "PAUSED"
    /\ offers[biz.offer_id].quantity_remaining
          < offers[biz.offer_id].quantity_total

\* C38: owner-only release.  Leaving the lock context removes only the key
\* the leaving call acquired: when the key of customer 1 has run out and
\* another call has acquired the lock of the same offer and is still inside
\* its context, the late release of customer 1 leaves that call's key set.
C38_ReleaseOnlyOwnLock ==
    [][\A d \in Customers \ {1} :
          ( /\ cust[1].pc = "cr_release"
            /\ cust'[1].pc # "cr_release"
            /\ cust[1].acquired
            /\ cust[d].acquired
            /\ cust[d].offer_id = cust[1].offer_id
            /\ cust[d].pc \in {"cr_get", "cr_decrement", "cr_decrement_flush",
                               "cr_create", "cr_rollback", "cr_release"}
            /\ lock[cust[1].offer_id] )
          => lock'[cust[1].offer_id]]_vars

\* C39: double cancellation.  Of two cancellations of the same CONFIRMED
\* reservation that run at the same time only one reports success: no two
\* calls hold a successful answer for the same reservation at once, and a
\* call reports success only by a step that finds the row CONFIRMED.
C39_OneCancellationSucceeds ==
    [][\A c \in Customers :
          ( /\ cust'[c].op = "confirm_cancel"
            /\ cust'[c].result.success
            /\ ~cust[c].result.success )
          => /\ reservations[cust[c].rid].status = "CONFIRMED"
             /\ \A d \in Customers \ {c} :
                   ~( /\ cust[d].op = "confirm_cancel"
                      /\ cust[d].rid = cust[c].rid
                      /\ cust[d].pc = "reply"
                      /\ cust[d].result.success )]_vars

====
